---- MODULE Spec2Model ----
(***************************************************************************)
(* A model of claude_oauth: the OAuth coordinator (oauth.py), the          *)
(* credential store (storage.py), the PKCE generator (pkce.py) and the     *)
(* chat transport (client.py).                                             *)
(*                                                                         *)
(* Python values are modelled as follows.  None is the record None.        *)
(* The pasted authorization code, which the code takes apart, is a         *)
(* sequence of one-character strings; other strings are TLA+ strings, put  *)
(* together with \o; a string that may also be None is the record Str(s).  *)
(* A value parsed from JSON is None, Str(s), Num(n) or Obj(fields).  A     *)
(* raised exception is a record [type, msg] where msg is the tuple of the  *)
(* parts of the formatted message.                                         *)
(***************************************************************************)
EXTENDS Integers, Sequences, FiniteSets, TLC

VARIABLES
    now,          \* the wall clock, epoch milliseconds (time.time() * 1000)
    file,         \* the content of CREDENTIALS_FILE
    pending,      \* oauth._pending_pkce
    last,         \* the call that ran last: its inputs, what it sent, its outcome
    inp,          \* split check: the authorization_code under test
    out,          \* split check: the (code, state) computed from inp
    stream,       \* the ChatStream object: response and _full_content
    gen,          \* the async generator iterating it: position, final_data, what
                  \* it sent and received, what it raised
    passes,       \* how many times the stream object has been iterated
    lines,        \* the lines the server has delivered to the current iteration
    chunks,       \* the text chunks the current iteration has yielded
    nlines,       \* the lines delivered to all iterations
    procs,        \* the processes that run get_valid_access_token() concurrently
                  \* on the one credential file: where each stands, the
                  \* credentials it holds, what it raised and sent
    held,         \* the credentials object the caller of the coordinator has
                  \* kept from a call that returned one (None before)
    cli           \* the interactive chat of cmd_chat: its messages, model and
                  \* attached files

vars ==
    <<now, file, pending, last, inp, out, stream, gen, passes, lines, chunks, nlines,
      procs, held, cli>>

authVars == <<now, file, pending, last>>
splitVars == <<inp, out>>
streamVars == <<stream, gen, passes, lines, chunks, nlines>>
raceVars == <<procs>>
callerVars == <<held, cli>>

----------------------------------------------------------------------------
(* Bounds of the model *)

\* the clock takes the values 0, 1000, ..., MaxTicks * 1000
MaxTicks == 1
\* the longest authorization_code of the split check
MaxLen == 4
\* the lines the server delivers to the iterations of one stream object (the
\* scripted stream of five lines is delivered besides)
MaxLines == 3
\* the iterations of one stream object
MaxPasses == 2

----------------------------------------------------------------------------
(* Python values *)

None == [t |-> "none"]

Str(s) == [t |-> "str", s |-> s]

\* a number and a dict as json.loads returns them (null is None, a string Str)
Num(n) == [t |-> "num", n |-> n]
Obj(fields) == [t |-> "obj", f |-> fields]
List(items) == [t |-> "list", items |-> items]

IsDict(v) == v.t = "obj"

\* the truth value of a value: None, "", 0 and {} are false
Truthy(v) ==
    CASE v.t = "none" -> FALSE
      [] v.t = "str" -> v.s # ""
      [] v.t = "num" -> v.n # 0
      [] v.t = "obj" -> DOMAIN v.f # {}
      [] OTHER -> TRUE

Exception(type, msg) == [t |-> "exc", type |-> type, msg |-> msg]

KeyError(key) == Exception("KeyError", <<key>>)
TypeError(what) == Exception("TypeError", <<what>>)

\* a bool that is stored next to other values
Bool(b) == [t |-> "bool", b |-> b]

\* dict.get(key, default) on a dict modelled as a function
DictGet(d, k, default) == IF k \in DOMAIN d THEN d[k] ELSE default

\* httpx.Response.is_success
is_success(response) == response.status >= 200 /\ response.status <= 299

----------------------------------------------------------------------------
(* constants.py *)

CLAUDE_OAUTH_CLIENT_ID == "9d1c250a-e61b-44d9-88ed-5944d1962f5e"
CLAUDE_OAUTH_REDIRECT_URI == "https://console.anthropic.com/oauth/code/callback"
CLAUDE_OAUTH_SCOPES == "org:create_api_key user:profile user:inference"
ANTHROPIC_API_URL == "https://api.anthropic.com/v1"

----------------------------------------------------------------------------
(* The environment: the clock, the provider's token endpoint, the caller *)

Clock == {t * 1000 : t \in 0..MaxTicks}

\* the instants a later reading of the clock may return
Later(t) == {u \in Clock : u >= t}

AccessTokens == {"at1", "at2"}
RefreshTokens == {"rt1", "rt2"}
\* expires_in, in seconds: a token that expires at once, and one that leaves the
\* five-minute buffer of get_valid_access_token one second after it was issued
ExpiresIn == {0, 301}

\* JSON bodies of a 2xx token response; the provider may omit refresh_token
TokenData ==
    [access_token : AccessTokens, refresh_token : RefreshTokens, expires_in : ExpiresIn]
    \cup [access_token : AccessTokens, expires_in : ExpiresIn]
    \cup {[error |-> "unsupported"]}

TokenResponses ==
    {[status |-> 200, data |-> d] : d \in TokenData}
    \cup {[status |-> 400, text |-> "invalid_grant"],
          [status |-> 500, text |-> "server error"]}

\* stands for the response of a call that sends no request
NoResponse == [status |-> 0, text |-> ""]

----------------------------------------------------------------------------
(* pkce.py *)

\* generate_code_verifier: the values secrets.token_bytes may produce
Verifiers == {Str("v1"), Str("v2")}

\* generate_code_challenge: base64url(sha256(verifier)), a deterministic
\* injective function of the verifier that is not the verifier
generate_code_challenge(verifier) == [sha256 |-> verifier]

\* generate_pkce, for the verifier drawn
generate_pkce(verifier) ==
    [verifier |-> verifier, challenge |-> generate_code_challenge(verifier)]

----------------------------------------------------------------------------
(* storage.py *)

ClaudeOAuthCredentials(at, rt, exp, conn) ==
    [access_token |-> at, refresh_token |-> rt, expires_at |-> exp, connected_at |-> conn]

\* the split check before line 63 has run
NoSplit == [done |-> FALSE]

\* the content of the credential file: the file does not exist, it cannot be
\* read, it holds text that is not JSON (as written, truncated or garbled), or
\* it holds the JSON value v
NoFile == [t |-> "nofile"]
Unreadable == [t |-> "unreadable"]
NotJson == [t |-> "text", text |-> "{\"accessToken\": "]
FileJson(v) == [t |-> "json", v |-> v]

\* the file as open(..., "w") leaves it: truncated to nothing
Truncated == [t |-> "text", text |-> ""]

\* the file after a write of the shorter text of v at offset 0 over a longer
\* content of len characters: the text of v followed by the rest of the old
\* content (json.loads: Extra data)
Garbled(v, len) == [t |-> "garbled", head |-> v, len |-> len]

\* json.loads on a string or a number of the file
FromJson(v) == IF v.t = "str" THEN v.s ELSE v.n

\* a variant of save_credentials that writes the two times under each other's key
save_credentials_TimesSwapped(credentials) ==
    FileJson(Obj([accessToken |-> Str(credentials.access_token),
                  refreshToken |-> Str(credentials.refresh_token),
                  expiresAt |-> Num(credentials.connected_at),
                  connectedAt |-> Num(credentials.expires_at)]))

\* save_credentials: the JSON object written to the file
save_credentials(credentials) ==
    FileJson(Obj([accessToken |-> Str(credentials.access_token),
                  refreshToken |-> Str(credentials.refresh_token),
                  expiresAt |-> Num(credentials.expires_at),
                  connectedAt |-> Num(credentials.connected_at)]))

CredentialKeys == {"accessToken", "refreshToken", "expiresAt", "connectedAt"}

\* what a call returns, or the exception it raises
Returned(value) == [raised |-> None, value |-> value]
Raised(exception) == [raised |-> exception, value |-> None]

\* load_credentials(): JSONDecodeError, KeyError and OSError are caught, the
\* TypeError of a subscript on a value that is not an object is not
LoadCredentialsCall(f) ==
    IF f.t = "nofile" THEN Returned(None)
    ELSE IF f.t = "unreadable" THEN Returned(None)
    ELSE IF f.t \in {"text", "garbled"} THEN Returned(None)
    ELSE LET data == f.v
         IN  IF ~IsDict(data) THEN Raised(TypeError("[]"))
             ELSE IF \E key \in CredentialKeys : key \notin DOMAIN data.f
             THEN Returned(None)
             ELSE Returned(ClaudeOAuthCredentials(FromJson(data.f.accessToken),
                                                  FromJson(data.f.refreshToken),
                                                  FromJson(data.f.expiresAt),
                                                  FromJson(data.f.connectedAt)))

\* the value load_credentials() returns
load_credentials(f) == LoadCredentialsCall(f).value

BUFFER_MS == 5 * 60 * 1000

\* has_valid_credentials() at clock reading t
has_valid_credentials(f, t) ==
    LET credentials == LoadCredentialsCall(f)
    IN  IF credentials.raised # None THEN credentials
        ELSE IF credentials.value = None THEN Returned(Bool(FALSE))
        ELSE Returned(Bool(credentials.value.expires_at > t + BUFFER_MS))

\* clear_credentials: unlink, a missing file is not an error
clear_credentials(f) == NoFile

----------------------------------------------------------------------------
(* oauth.py *)

Whitespace == {" ", "\n", "\t"}

\* str.strip()
RECURSIVE LStrip(_)
LStrip(s) == IF s # <<>> /\ Head(s) \in Whitespace THEN LStrip(Tail(s)) ELSE s
RECURSIVE RStrip(_)
RStrip(s) ==
    IF s # <<>> /\ s[Len(s)] \in Whitespace THEN RStrip(SubSeq(s, 1, Len(s) - 1)) ELSE s
Strip(s) == RStrip(LStrip(s))

\* "#" in s
HasHash(s) == \E i \in 1..Len(s) : s[i] = "#"

\* a variant of SplitOnce that cuts at the last "#" (str.rsplit)
SplitOnce_Last(s) ==
    LET i == CHOOSE k \in 1..Len(s) : s[k] = "#" /\ \A j \in (k + 1)..Len(s) : s[j] # "#"
    IN  <<SubSeq(s, 1, i - 1), SubSeq(s, i + 1, Len(s))>>

\* s.split("#", 1), for s holding a "#"
SplitOnce(s) ==
    LET i == CHOOSE k \in 1..Len(s) : s[k] = "#" /\ \A j \in 1..(k - 1) : s[j] # "#"
    IN  <<SubSeq(s, 1, i - 1), SubSeq(s, i + 1, Len(s))>>

\* exchange_code_for_tokens, line 63: the (code, state) of an authorization_code
SplitCode(authorization_code) ==
    IF HasHash(authorization_code)
    THEN SplitOnce(Strip(authorization_code))
    ELSE <<Strip(authorization_code), <<>>>>

\* start_oauth_flow: the query parameters of the authorization URL
AuthUrlParams(pkce) ==
    [code |-> "true",
     client_id |-> CLAUDE_OAUTH_CLIENT_ID,
     response_type |-> "code",
     redirect_uri |-> CLAUDE_OAUTH_REDIRECT_URI,
     scope |-> CLAUDE_OAUTH_SCOPES,
     code_challenge |-> pkce.challenge,
     code_challenge_method |-> "S256",
     state |-> pkce.verifier]

\* The outcome of a call: what it raised (None when it returned), the value it
\* returned, the file and the pending pair it leaves, the requests it sent.
Outcome(raised, value, f, p, sent) ==
    [raised |-> raised, value |-> value, file |-> f, pending |-> p, sent |-> sent]


\* exchange_code_for_tokens, lines 59-61: the verifier used
ExchangeVerifier(code_verifier, p) ==
    IF Truthy(code_verifier) THEN code_verifier
    ELSE IF p # None THEN p.verifier ELSE None

\* a variant of HasVerifier that lets a missing verifier through
HasVerifier_Unchecked(verifier) == TRUE

\* exchange_code_for_tokens, line 60: the guard of the ValueError
HasVerifier(verifier) == Truthy(verifier)

\* a variant of PendingAfterExchange that keeps the pending pair
PendingAfterExchange_Kept(p) == p

\* exchange_code_for_tokens, line 82: _pending_pkce after a 2xx response
PendingAfterExchange(p) == None

\* exchange_code_for_tokens(authorization_code, code_verifier) when the provider
\* answers response and the clock then reads t1 and t2
exchange_code_for_tokens(authorization_code, code_verifier, f, p, response, t1, t2) ==
    LET verifier == ExchangeVerifier(code_verifier, p)
        cs == SplitCode(authorization_code)
        request == [code |-> cs[1],
                    state |-> cs[2],
                    grant_type |-> "authorization_code",
                    client_id |-> CLAUDE_OAUTH_CLIENT_ID,
                    redirect_uri |-> CLAUDE_OAUTH_REDIRECT_URI,
                    code_verifier |-> verifier]
    IN  IF ~HasVerifier(verifier)
        THEN Outcome(Exception("ValueError",
                               <<"No code verifier found. Start OAuth flow first.">>),
                     None, f, p, <<>>)
        ELSE IF ~is_success(response)
        THEN Outcome(Exception("RuntimeError", <<"Token exchange failed: ", response.text>>),
                     None, f, p, <<request>>)
        ELSE LET data == response.data IN
             \* _pending_pkce is cleared before the fields of data are read
             IF "access_token" \notin DOMAIN data
             THEN Outcome(KeyError("access_token"), None, f, PendingAfterExchange(p),
                          <<request>>)
             ELSE IF "refresh_token" \notin DOMAIN data
             THEN Outcome(KeyError("refresh_token"), None, f, PendingAfterExchange(p),
                          <<request>>)
             ELSE IF "expires_in" \notin DOMAIN data
             THEN Outcome(KeyError("expires_in"), None, f, PendingAfterExchange(p),
                          <<request>>)
             ELSE LET credentials ==
                          ClaudeOAuthCredentials(data.access_token, data.refresh_token,
                                                 t1 + data.expires_in * 1000, t2)
                  IN  Outcome(None, credentials, save_credentials(credentials),
                              PendingAfterExchange(p), <<request>>)

\* a variant of refresh_access_token that removes the stored record when the
\* provider refuses the refresh token
refresh_access_token_ClearsOnFailure(credentials, f, p, response, t) ==
    LET request == [grant_type |-> "refresh_token",
                    refresh_token |-> credentials.refresh_token,
                    client_id |-> CLAUDE_OAUTH_CLIENT_ID]
    IN  IF ~is_success(response)
        THEN Outcome(Exception("RuntimeError", <<"Token refresh failed: ", response.text>>),
                     None, clear_credentials(f), p, <<request>>)
        ELSE LET new_credentials ==
                     ClaudeOAuthCredentials(
                         DictGet(response.data, "access_token", ""),
                         DictGet(response.data, "refresh_token", credentials.refresh_token),
                         t + DictGet(response.data, "expires_in", 0) * 1000,
                         credentials.connected_at)
             IN  Outcome(None, new_credentials, save_credentials(new_credentials), p,
                         <<request>>)

\* a variant of RefreshedRefreshToken that never takes the provider's new token
RefreshedRefreshToken_AlwaysOld(data, credentials) == credentials.refresh_token

\* line 113: the refresh token of the new credentials
RefreshedRefreshToken(data, credentials) ==
    DictGet(data, "refresh_token", credentials.refresh_token)

\* a variant of RefreshedConnectedAt that stamps the time of the refresh
RefreshedConnectedAt_Now(credentials, t) == t

\* line 115: the connected_at of the new credentials
RefreshedConnectedAt(credentials, t) == credentials.connected_at

\* refresh_access_token(credentials) when the provider answers response and the
\* clock then reads t
refresh_access_token(credentials, f, p, response, t) ==
    LET request == [grant_type |-> "refresh_token",
                    refresh_token |-> credentials.refresh_token,
                    client_id |-> CLAUDE_OAUTH_CLIENT_ID]
    IN  IF ~is_success(response)
        THEN Outcome(Exception("RuntimeError", <<"Token refresh failed: ", response.text>>),
                     None, f, p, <<request>>)
        ELSE LET data == response.data IN
             IF "access_token" \notin DOMAIN data
             THEN Outcome(KeyError("access_token"), None, f, p, <<request>>)
             ELSE IF "expires_in" \notin DOMAIN data
             THEN Outcome(KeyError("expires_in"), None, f, p, <<request>>)
             ELSE LET new_credentials ==
                          ClaudeOAuthCredentials(
                              data.access_token,
                              RefreshedRefreshToken(data, credentials),
                              t + data.expires_in * 1000,
                              RefreshedConnectedAt(credentials, t))
                  IN  Outcome(None, new_credentials, save_credentials(new_credentials), p,
                              <<request>>)

\* a variant of NeedsRefresh that leaves the boundary out
NeedsRefresh_Strict(credentials, t) == credentials.expires_at < t + BUFFER_MS

\* get_valid_access_token, line 128: the token is refreshed before it is returned
NeedsRefresh(credentials, t) == credentials.expires_at <= t + BUFFER_MS

\* get_valid_access_token() at clock reading t0, when the provider would answer
\* response to a refresh request and the clock then reads t
get_valid_access_token(f, p, t0, response, t) ==
    LET loaded == LoadCredentialsCall(f)
        credentials == loaded.value
    IN
    IF loaded.raised # None
    THEN Outcome(loaded.raised, None, f, p, <<>>)
    ELSE IF credentials = None
    THEN Outcome(Exception("RuntimeError", <<"Not authenticated. Run login first.">>),
                 None, f, p, <<>>)
    ELSE IF NeedsRefresh(credentials, t0)
    THEN LET r == refresh_access_token(credentials, f, p, response, t) IN
         IF r.raised # None THEN r
         ELSE Outcome(None, Str(r.value.access_token), r.file, r.pending, r.sent)
    ELSE Outcome(None, Str(credentials.access_token), f, p, <<>>)

(***************************************************************************)
(* client.py.  Streamed text and message fields are TLA+ strings, put      *)
(* together with \o.                                                       *)
(***************************************************************************)
DEFAULT_MODEL == "claude-opus-4-5"
DEFAULT_MAX_TOKENS == 4096

ChatResponse(id, content, model, stop_reason, input_tokens, output_tokens) ==
    [id |-> id, content |-> content, model |-> model, stop_reason |-> stop_reason,
     input_tokens |-> input_tokens, output_tokens |-> output_tokens]

\* a request whose Authorization header carries no token
ChatRequest_NoToken(access_token, streaming) ==
    IF streaming
    THEN [url |-> ANTHROPIC_API_URL \o "/messages?beta=true",
          authorization |-> "Bearer ",
          model |-> DEFAULT_MODEL, max_tokens |-> DEFAULT_MAX_TOKENS, stream |-> TRUE]
    ELSE [url |-> ANTHROPIC_API_URL \o "/messages?beta=true",
          authorization |-> "Bearer ",
          model |-> DEFAULT_MODEL, max_tokens |-> DEFAULT_MAX_TOKENS]

\* the request chat() and ChatStream.__aiter__ post to the messages endpoint,
\* with the default ChatOptions
ChatRequest(access_token, streaming) ==
    IF streaming
    THEN [url |-> ANTHROPIC_API_URL \o "/messages?beta=true",
          authorization |-> "Bearer " \o access_token,
          model |-> DEFAULT_MODEL, max_tokens |-> DEFAULT_MAX_TOKENS, stream |-> TRUE]
    ELSE [url |-> ANTHROPIC_API_URL \o "/messages?beta=true",
          authorization |-> "Bearer " \o access_token,
          model |-> DEFAULT_MODEL, max_tokens |-> DEFAULT_MAX_TOKENS]

\* the body of a response: bytes that are the UTF-8 encoding of text, or bytes
\* that are not valid UTF-8
Body(utf8, text) == [utf8 |-> utf8, text |-> text]

\* httpx's response.text: decoding replaces what cannot be decoded
ResponseText(body) == IF body.utf8 THEN body.text ELSE body.text \o "\\ufffd"

\* bytes.decode(): strict, raises on what cannot be decoded
BytesDecode(body) ==
    IF body.utf8
    THEN [raised |-> None, value |-> body.text]
    ELSE [raised |-> Exception("UnicodeDecodeError", <<"utf-8">>), value |-> ""]

ApiRequestFailed(status, text) ==
    Exception("RuntimeError", <<"API request failed: ", ToString(status), " - ", text>>)

\* chat(): the ChatResponse built from the decoded body of a 2xx response
ChatResponseOf(data) ==
    ChatResponse(data.id,
                 IF data.content # <<>>
                 THEN DictGet(data.content[1], "text", "")
                 ELSE "",
                 data.model, data.stop_reason,
                 data.usage.input_tokens, data.usage.output_tokens)

\* chat(): f and p are the credential file and the pending PKCE pair, t0 the
\* clock at the call, tokenResponse and t the token endpoint's answer and the
\* clock when it arrives (used when the token is refreshed), response the
\* messages endpoint's answer
chat(f, p, t0, tokenResponse, t, response) ==
    LET token == get_valid_access_token(f, p, t0, tokenResponse, t)
    IN  IF token.raised # None
        THEN token
        ELSE LET sent == Append(token.sent, ChatRequest(token.value.s, FALSE))
             IN  IF ~is_success(response)
                 THEN Outcome(ApiRequestFailed(response.status, ResponseText(response.body)),
                              None, token.file, token.pending, sent)
                 ELSE Outcome(None, ChatResponseOf(response.data),
                              token.file, token.pending, sent)

\* a key final_data does not hold
Absent == [t |-> "absent"]

\* final_data = {}
EmptyFinalData ==
    [id |-> Absent, model |-> Absent, stop_reason |-> Absent,
     input_tokens |-> Absent, output_tokens |-> Absent]

\* final_data.get(key, default)
FinalGet(v, default) == IF v = Absent THEN default ELSE v

\* str(v)
PyStr(v) ==
    CASE v.t = "str" -> v.s
      [] v.t = "none" -> "None"
      [] v.t = "num" -> ToString(v.n)
      [] OTHER -> "{...}"

\* int(v): a number converts, None and a dict raise TypeError
PyInt(v) ==
    IF v.t = "num"
    THEN [raised |-> None, value |-> v.n]
    ELSE [raised |-> Exception("TypeError", <<"int()">>), value |-> 0]

\* a line of the response: the "data: " prefix or none, and what follows it,
\* a JSON document with the value it parses to or text that is not JSON
Line(data, body) == [data |-> data, body |-> body]
Json(v) == [json |-> TRUE, v |-> v]
Raw(text) == [json |-> FALSE, text |-> text]

DONE == Raw("[DONE]")

\* json.loads(json_str)
json_loads(body) ==
    IF body.json
    THEN [raised |-> None, value |-> body.v]
    ELSE [raised |-> Exception("JSONDecodeError", <<body.text>>), value |-> None]

\* what one turn of the line loop does: the exception it raises or None, the
\* chunks it yields (none or one), the stream object and final_data after it
Turn(raised, yielded, self, final_data) ==
    [raised |-> raised, yielded |-> yielded, self |-> self, final_data |-> final_data]

Skip(self, final_data) == Turn(None, <<>>, self, final_data)

AttributeError(attr) == Exception("AttributeError", <<attr>>)

\* a variant of YieldsText that yields every text
YieldsText_Always(text) == TRUE

\* line 162: a delta's text is yielded when it is not empty
YieldsText(text) == Truthy(text)

\* lines 160-164: a content_block_delta event
OnContentBlockDelta(event, self, final_data) ==
    IF "delta" \notin DOMAIN event.f
    THEN Skip(self, final_data)
    ELSE LET delta == event.f.delta
         IN  IF ~IsDict(delta)
             THEN Turn(AttributeError("get"), <<>>, self, final_data)
             ELSE LET text == DictGet(delta.f, "text", Str(""))
                  IN  IF ~YieldsText(text)
                      THEN Skip(self, final_data)
                      ELSE IF text.t # "str"
                      THEN Turn(TypeError("+="), <<>>, self, final_data)
                      ELSE Turn(None, <<text.s>>,
                                [self EXCEPT !.full_content = @ \o text.s],
                                final_data)

\* lines 166-168, changed to publish a response as soon as the message starts
OnMessageStart_SetsResponse(event, self, final_data) ==
    IF ~Truthy(DictGet(event.f, "message", None))
    THEN Skip(self, final_data)
    ELSE LET message == event.f.message
         IN  IF ~IsDict(message)
             THEN Turn(TypeError("[]"), <<>>, self, final_data)
             ELSE IF "id" \notin DOMAIN message.f
             THEN Turn(KeyError("id"), <<>>, self, final_data)
             ELSE IF "model" \notin DOMAIN message.f
             THEN Turn(KeyError("model"), <<>>, self,
                       [final_data EXCEPT !.id = message.f.id])
             ELSE Turn(None, <<>>,
                       [self EXCEPT !.response =
                           ChatResponse(PyStr(message.f.id), self.full_content,
                                        PyStr(message.f.model), "", 0, 0)],
                       [final_data EXCEPT !.id = message.f.id,
                                          !.model = message.f.model])

\* lines 166-168: a message_start event
OnMessageStart(event, self, final_data) ==
    IF ~Truthy(DictGet(event.f, "message", None))
    THEN Skip(self, final_data)
    ELSE LET message == event.f.message
         IN  IF ~IsDict(message)
             THEN Turn(TypeError("[]"), <<>>, self, final_data)
             ELSE IF "id" \notin DOMAIN message.f
             THEN Turn(KeyError("id"), <<>>, self, final_data)
             ELSE IF "model" \notin DOMAIN message.f
             THEN Turn(KeyError("model"), <<>>, self,
                       [final_data EXCEPT !.id = message.f.id])
             ELSE Turn(None, <<>>, self,
                       [final_data EXCEPT !.id = message.f.id,
                                          !.model = message.f.model])

\* lines 170-174, changed to forget the usage at a message_delta without one
OnMessageDelta_ResetsUsage(event, self, final_data) ==
    IF "delta" \in DOMAIN event.f /\ ~IsDict(event.f.delta)
    THEN Turn(AttributeError("get"), <<>>, self, final_data)
    ELSE LET stop_reason == IF "delta" \in DOMAIN event.f
                            THEN DictGet(event.f.delta.f, "stop_reason", Str(""))
                            ELSE Str("")
             usage == DictGet(event.f, "usage", None)
             stopped == [final_data EXCEPT !.stop_reason = stop_reason]
         IN  IF ~Truthy(usage)
             THEN Turn(None, <<>>, self,
                       [stopped EXCEPT !.input_tokens = Absent, !.output_tokens = Absent])
             ELSE IF ~IsDict(usage)
             THEN Turn(AttributeError("get"), <<>>, self, stopped)
             ELSE Turn(None, <<>>, self,
                       [stopped EXCEPT
                           !.input_tokens = DictGet(usage.f, "input_tokens", Num(0)),
                           !.output_tokens = DictGet(usage.f, "output_tokens", Num(0))])

\* lines 170-174: a message_delta event
OnMessageDelta(event, self, final_data) ==
    IF "delta" \in DOMAIN event.f /\ ~IsDict(event.f.delta)
    THEN Turn(AttributeError("get"), <<>>, self, final_data)
    ELSE LET stop_reason == IF "delta" \in DOMAIN event.f
                            THEN DictGet(event.f.delta.f, "stop_reason", Str(""))
                            ELSE Str("")
             usage == DictGet(event.f, "usage", None)
             stopped == [final_data EXCEPT !.stop_reason = stop_reason]
         IN  IF ~Truthy(usage)
             THEN Turn(None, <<>>, self, stopped)
             ELSE IF ~IsDict(usage)
             THEN Turn(AttributeError("get"), <<>>, self, stopped)
             ELSE Turn(None, <<>>, self,
                       [stopped EXCEPT
                           !.input_tokens = DictGet(usage.f, "input_tokens", Num(0)),
                           !.output_tokens = DictGet(usage.f, "output_tokens", Num(0))])

\* lines 158-174: the event a line parsed to
ProcessEvent(event, self, final_data) ==
    IF ~IsDict(event)
    THEN Turn(AttributeError("get"), <<>>, self, final_data)
    ELSE LET type == DictGet(event.f, "type", None)
         IN  IF type = Str("content_block_delta")
             THEN OnContentBlockDelta(event, self, final_data)
             ELSE IF type = Str("message_start")
             THEN OnMessageStart(event, self, final_data)
             ELSE IF type = Str("message_delta")
             THEN OnMessageDelta(event, self, final_data)
             ELSE Skip(self, final_data)

\* lines 149-177: one turn of the loop over the lines of a 2xx response
ProcessLine(line, self, final_data) ==
    IF ~line.data
    THEN Skip(self, final_data)
    ELSE IF line.body = DONE
    THEN Skip(self, final_data)
    ELSE LET event == json_loads(line.body)
         IN  IF event.raised # None
             THEN Skip(self, final_data)
             ELSE ProcessEvent(event.value, self, final_data)

\* lines 179-186: the ChatResponse built when the lines are exhausted
FinalResponse(self, final_data) ==
    LET input_tokens == PyInt(FinalGet(final_data.input_tokens, Num(0)))
        output_tokens == PyInt(FinalGet(final_data.output_tokens, Num(0)))
    IN  IF input_tokens.raised # None
        THEN [raised |-> input_tokens.raised, value |-> None]
        ELSE IF output_tokens.raised # None
        THEN [raised |-> output_tokens.raised, value |-> None]
        ELSE [raised |-> None,
              value |-> ChatResponse(PyStr(FinalGet(final_data.id, Str(""))),
                                     self.full_content,
                                     PyStr(FinalGet(final_data.model, Str(""))),
                                     PyStr(FinalGet(final_data.stop_reason, Str(""))),
                                     input_tokens.value, output_tokens.value)]

----------------------------------------------------------------------------
(* The OAuth coordinator and the credential store as a state machine: the   *)
(* caller runs one call after the other, the clock advances in between and  *)
(* while a request is in flight.                                            *)

\* the authorization codes pasted by the user: " a#b#c " and " a "
CodeInputs ==
    {<<" ", "a", "#", "b", "#", "c", " ">>,
     <<" ", "a", " ">>}

\* the code_verifier argument of exchange_code_for_tokens
CodeVerifierArgs == {None, Str(""), Str("v1")}

Call(op, args, outcome) ==
    [op |-> op, args |-> args, raised |-> outcome.raised, value |-> outcome.value,
     sent |-> outcome.sent]

NoCall == [op |-> "none", args |-> <<>>, raised |-> None, value |-> None, sent |-> <<>>]

\* cmd_chat, lines 220-222: no message, the default model, no attached file
InitCli == [messages |-> <<>>, current_model |-> "sonnet", pending_files |-> <<>>]

\* the caller has kept no credentials, and its chat has not begun
InitCaller ==
    /\ held = None
    /\ cli = InitCli

InitAuth ==
    /\ now = 0
    /\ file = NoFile
    /\ pending = None
    /\ last = NoCall

\* time passes between two calls
Tick ==
    /\ \E t \in Clock : t > now /\ now' = t
    /\ last' = NoCall
    /\ UNCHANGED <<file, pending>>
    /\ UNCHANGED <<splitVars, callerVars, streamVars, raceVars>>

\* start_oauth_flow()
StartOAuthFlow ==
    \E verifier \in Verifiers :
        LET pkce == generate_pkce(verifier) IN
        /\ pending' = pkce
        /\ last' = [op |-> "start_oauth_flow", args |-> <<>>, raised |-> None,
                    value |-> [auth_url |-> AuthUrlParams(pkce),
                               code_verifier |-> pkce.verifier],
                    sent |-> <<>>]
        /\ UNCHANGED <<now, file>>
        /\ UNCHANGED <<splitVars, callerVars, streamVars, raceVars>>

\* exchange_code_for_tokens(authorization_code, code_verifier) where the provider
\* answers response and the clock then reads t1 and t2
ExchangeStep(authorization_code, code_verifier, response, t1, t2) ==
    LET r == exchange_code_for_tokens(authorization_code, code_verifier, file,
                                      pending, response, t1, t2)
    IN  /\ file' = r.file
        /\ pending' = r.pending
        /\ now' = t2
        /\ last' = Call("exchange_code_for_tokens",
                        <<authorization_code, code_verifier>>, r)
        /\ UNCHANGED <<splitVars, callerVars, streamVars, raceVars>>

\* exchange_code_for_tokens(authorization_code, code_verifier): without a verifier
\* no request is sent and no response is drawn
ExchangeCode ==
    \E authorization_code \in CodeInputs, code_verifier \in CodeVerifierArgs :
        \/ /\ ~HasVerifier(ExchangeVerifier(code_verifier, pending))
           /\ ExchangeStep(authorization_code, code_verifier, NoResponse, now, now)
        \/ /\ HasVerifier(ExchangeVerifier(code_verifier, pending))
           /\ \E response \in TokenResponses, t1 \in Later(now) :
              \E t2 \in Later(t1) :
                  ExchangeStep(authorization_code, code_verifier, response, t1, t2)

\* refresh_access_token(credentials), called with the credentials just loaded
\* or with the credentials object the caller has kept
RefreshAccessToken ==
    \E credentials \in {load_credentials(file), held} \ {None} :
    \E response \in TokenResponses, t \in Later(now) :
        LET r == refresh_access_token(credentials, file, pending, response, t)
        IN  /\ file' = r.file
            /\ pending' = r.pending
            /\ now' = t
            /\ last' = Call("refresh_access_token", <<credentials>>, r)
            /\ UNCHANGED <<splitVars, callerVars, streamVars, raceVars>>

\* get_valid_access_token() where the provider answers response to a refresh
\* request and the clock then reads t
GetValidStep(response, t) ==
    LET r == get_valid_access_token(file, pending, now, response, t)
    IN  /\ file' = r.file
        /\ pending' = r.pending
        /\ now' = t
        /\ last' = Call("get_valid_access_token", <<>>, r)
        /\ UNCHANGED <<splitVars, callerVars, streamVars, raceVars>>

\* get_valid_access_token(): a response is drawn only when a refresh is sent
GetValidAccessToken ==
    LET credentials == load_credentials(file)
        refreshes == IF credentials = None THEN FALSE ELSE NeedsRefresh(credentials, now)
    IN  \/ /\ ~refreshes
           /\ GetValidStep(NoResponse, now)
        \/ /\ refreshes
           /\ \E response \in TokenResponses, t \in Later(now) : GetValidStep(response, t)

\* load_credentials()
LoadCredentials ==
    /\ last' = [op |-> "load_credentials", args |-> <<>>,
                raised |-> LoadCredentialsCall(file).raised,
                value |-> LoadCredentialsCall(file).value, sent |-> <<>>]
    /\ UNCHANGED <<now, file, pending>>
    /\ UNCHANGED <<splitVars, callerVars, streamVars, raceVars>>

\* cmd_logout: clear_credentials()
ClearCredentials ==
    /\ file' = clear_credentials(file)
    /\ last' = [op |-> "clear_credentials", args |-> <<>>, raised |-> None,
                value |-> None, sent |-> <<>>]
    /\ UNCHANGED <<now, pending>>
    /\ UNCHANGED <<splitVars, callerVars, streamVars, raceVars>>

\* the caller keeps the credentials object that exchange_code_for_tokens
\* (line 92) or refresh_access_token (line 119) has just returned
Keep ==
    /\ last.op \in {"exchange_code_for_tokens", "refresh_access_token"}
    /\ last.raised = None
    /\ held' = last.value
    /\ UNCHANGED <<authVars, cli, splitVars, streamVars, raceVars>>

NextAuth ==
    \/ Tick
    \/ StartOAuthFlow
    \/ ExchangeCode
    \/ RefreshAccessToken
    \/ GetValidAccessToken
    \/ LoadCredentials
    \/ ClearCredentials

----------------------------------------------------------------------------
(* Two processes that run get_valid_access_token() concurrently on the one   *)
(* credential file.  A process reads the file and sends its refresh request *)
(* in one step; the answer arrives in a second; save_credentials is two     *)
(* steps, the open that truncates the file and the write of the text at     *)
(* offset 0 when the file is closed (Path.write_text, storage.py line 40):  *)
(* nothing locks the file between them.                                     *)

Procs == {1, 2}

Proc(pc, credentials, raised, sent, order) ==
    [pc |-> pc, credentials |-> credentials, raised |-> raised, sent |-> sent,
     order |-> order]

\* no process has called yet
InitProcs == procs = [i \in Procs |-> Proc("idle", None, None, <<>>, 0)]

----------------------------------------------------------------------------
(* The chat transport as a state machine: one ChatStream object, iterated   *)
(* by the consumer up to MaxPasses times, the messages endpoint delivering  *)
(* the lines of each response one by one, and blocking chat() calls before  *)
(* it.                                                                      *)

Event(fields) == Line(TRUE, Json(Obj(fields)))

ContentBlockDelta(text) ==
    Event([type |-> Str("content_block_delta"), index |-> Num(0),
           delta |-> Obj([type |-> Str("text_delta"), text |-> Str(text)])])

MessageStart(id, model) ==
    Event([type |-> Str("message_start"),
           message |-> Obj([id |-> Str(id), model |-> Str(model)])])

MessageDelta(stop_reason, usage) ==
    Event([type |-> Str("message_delta"),
           delta |-> Obj([stop_reason |-> Str(stop_reason)]),
           usage |-> usage])

\* the stream of the scripted case
Scripted ==
    <<MessageStart("msg_1", "m1"),
      ContentBlockDelta("Hel"),
      ContentBlockDelta("lo"),
      MessageDelta("end_turn", Obj([input_tokens |-> Num(10), output_tokens |-> Num(2)])),
      Line(TRUE, DONE)>>

\* the lines the messages endpoint delivers
StreamLines ==
    {Scripted[i] : i \in 1..Len(Scripted)} \cup
    {Line(FALSE, Raw("event: ping")),
     Line(TRUE, Raw("{\"type\": ")),
     Line(TRUE, Json(Num(5))),
     Event([type |-> Str("ping")]),
     ContentBlockDelta(""),
     Event([type |-> Str("content_block_delta"), index |-> Num(0)]),
     Event([type |-> Str("content_block_delta"), delta |-> None]),
     MessageStart("msg_2", "m2"),
     Event([type |-> Str("message_start"), message |-> Obj([id |-> Str("msg_1")])]),
     Event([type |-> Str("message_delta"),
            delta |-> Obj([stop_reason |-> Str("max_tokens")])]),
     MessageDelta("end_turn", Obj([output_tokens |-> Num(7)])),
     MessageDelta("end_turn", Obj([input_tokens |-> None, output_tokens |-> Num(2)]))}

\* the answers of the messages endpoint to a streaming request
StreamResponses ==
    {[status |-> 200],
     [status |-> 529, body |-> Body(TRUE, "overloaded")],
     [status |-> 502, body |-> Body(FALSE, "")]}

\* the answers of the messages endpoint to a blocking request
ChatData(content) ==
    [id |-> "msg_1", content |-> content, model |-> "m1", stop_reason |-> "end_turn",
     usage |-> [input_tokens |-> 10, output_tokens |-> 2]]

ChatResponses ==
    {[status |-> 200, data |-> ChatData(<<[type |-> "text", text |-> "Hello"]>>)],
     [status |-> 200, data |-> ChatData(<<>>)],
     [status |-> 200, data |-> ChatData(<<[type |-> "tool_use"]>>)],
     [status |-> 529, body |-> Body(TRUE, "overloaded")],
     [status |-> 502, body |-> Body(FALSE, "")]}

\* the answers of the token endpoint to the refresh a chat request may start
ChatTokenResponses ==
    {[status |-> 200, data |-> [access_token |-> "at2", expires_in |-> 301]],
     [status |-> 400, text |-> "invalid_grant"]}

\* the credential files the chat transport starts from: none, one whose token
\* has expired, one whose token is valid
ChatFiles ==
    {NoFile,
     save_credentials(ClaudeOAuthCredentials("at1", "rt1", 0, 0)),
     save_credentials(ClaudeOAuthCredentials("at1", "rt1", BUFFER_MS + 1, 0))}

\* chat_stream(): a new ChatStream
chat_stream == [response |-> None, full_content |-> ""]

\* the generator of an iteration: where it stands (none before the first
\* iteration; reading: waiting for a line; yielded: suspended at the yield;
\* done, failed, abandoned), where it failed, its final_data, what it raised,
\* the response it got, the requests it sent, and the iterations (numbered
\* from 1) whose connection to the messages endpoint is open
Generator(pc, at, final_data, raised, response, sent, connections) ==
    [pc |-> pc, at |-> at, final_data |-> final_data, raised |-> raised,
     response |-> response, sent |-> sent, connections |-> connections]

NoGenerator == Generator("none", "none", EmptyFinalData, None, NoResponse, <<>>, {})

\* lines 124-142: the two async with blocks are entered by iteration k, and
\* its request is sent on a new connection
Opened(connections, k) == connections \cup {k}

\* a connection that is never given back
Released_Leaks(connections, k) == connections

\* lines 124-125: the two async with blocks are left by iteration k, at the
\* end of the lines, by an exception or by the close of the generator
Released(connections, k) == connections \ {k}

Running == {"reading", "yielded"}

IsPrefix(s, t) == Len(s) <= Len(t) /\ SubSeq(t, 1, Len(s)) = s

InitStream ==
    /\ stream = chat_stream
    /\ gen = NoGenerator
    /\ passes = 0
    /\ lines = <<>>
    /\ chunks = <<>>
    /\ nlines = 0

InitChat ==
    /\ now = 0
    /\ file \in ChatFiles
    /\ pending = None
    /\ last = NoCall
    /\ inp = <<>>
    /\ out = NoSplit
    /\ InitStream
    /\ InitProcs
    /\ InitCaller

\* lines 112-147: ChatStream.__aiter__ up to the first line, where the token
\* endpoint answers tokenResponse to a refresh and the messages endpoint response
AiterStep(tokenResponse, response) ==
    LET token == get_valid_access_token(file, pending, now, tokenResponse, now)
        sent == Append(token.sent, ChatRequest(token.value.s, TRUE))
        error_text == BytesDecode(response.body)
    IN  /\ file' = token.file
        /\ pending' = token.pending
        /\ gen' = IF token.raised # None
                  THEN Generator("failed", "token", EmptyFinalData, token.raised,
                                 NoResponse, token.sent, gen.connections)
                  ELSE IF ~is_success(response)
                  THEN Generator("failed", "status", EmptyFinalData,
                                 IF error_text.raised # None
                                 THEN error_text.raised
                                 ELSE ApiRequestFailed(response.status, error_text.value),
                                 response, sent,
                                 Released(Opened(gen.connections, passes + 1),
                                          passes + 1))
                  ELSE Generator("reading", "lines", EmptyFinalData, None, response, sent,
                                 Opened(gen.connections, passes + 1))
        /\ passes' = passes + 1
        /\ lines' = <<>>
        /\ chunks' = <<>>
        /\ UNCHANGED <<now, stream, nlines, splitVars, callerVars, raceVars>>

\* the consumer starts to iterate the stream object: each iteration calls
\* __aiter__, which runs the generator from its first line
Aiter ==
    /\ gen.pc \notin Running
    /\ passes < MaxPasses
    /\ LET credentials == load_credentials(file)
           refreshes == IF credentials = None THEN FALSE
                        ELSE NeedsRefresh(credentials, now)
           tokenResponses == IF refreshes THEN ChatTokenResponses ELSE {NoResponse}
       IN  \E tokenResponse \in tokenResponses :
              LET token == get_valid_access_token(file, pending, now, tokenResponse, now)
                  responses == IF token.raised # None THEN {NoResponse}
                               ELSE StreamResponses
              IN  \E response \in responses : AiterStep(tokenResponse, response)
    /\ last' = NoCall

\* lines 149-177: the next line arrives and the loop takes a turn
NextLine ==
    /\ gen.pc \in Running
    /\ \E line \in StreamLines :
          /\ IF nlines < MaxLines THEN TRUE
             ELSE passes = 1 /\ IsPrefix(Append(lines, line), Scripted)
          /\ LET turn == ProcessLine(line, stream, gen.final_data)
             IN  /\ stream' = turn.self
                 /\ gen' = [gen EXCEPT
                               !.pc = IF turn.raised # None THEN "failed"
                                      ELSE IF turn.yielded # <<>> THEN "yielded"
                                      ELSE "reading",
                               !.at = IF turn.raised # None THEN "line" ELSE @,
                               !.raised = turn.raised,
                               !.final_data = turn.final_data,
                               !.connections = IF turn.raised # None
                                               THEN Released(@, passes)
                                               ELSE @]
                 /\ chunks' = chunks \o turn.yielded
                 /\ lines' = Append(lines, line)
                 /\ nlines' = nlines + 1
    /\ UNCHANGED <<authVars, passes, splitVars, callerVars, raceVars>>

\* lines 149 and 179-186: the response ends and the ChatResponse is built
EndOfLines ==
    /\ gen.pc \in Running
    /\ LET final == FinalResponse(stream, gen.final_data)
       IN  IF final.raised # None
           THEN /\ gen' = [gen EXCEPT !.pc = "failed", !.at = "end",
                                      !.raised = final.raised,
                                      !.connections = Released(@, passes)]
                /\ UNCHANGED stream
           ELSE /\ gen' = [gen EXCEPT !.pc = "done",
                                      !.connections = Released(@, passes)]
                /\ stream' = [stream EXCEPT !.response = final.value]
    /\ UNCHANGED <<authVars, passes, lines, chunks, nlines, splitVars, callerVars, raceVars>>

\* the consumer leaves its loop at a chunk: the generator stays suspended at
\* its yield, inside the two async with blocks, until it is closed
Abandon ==
    /\ gen.pc = "yielded"
    /\ gen' = [gen EXCEPT !.pc = "abandoned"]
    /\ UNCHANGED <<authVars, stream, passes, lines, chunks, nlines, splitVars, callerVars,
                   raceVars>>

\* iteration k was left by the consumer at a chunk
Abandoned(k) == k < passes \/ (k = passes /\ gen.pc = "abandoned")

\* the event loop closes the generator of an abandoned iteration (the
\* finalizer of an unreferenced async generator schedules its aclose(), and
\* asyncio.run ends with shutdown_asyncgens): GeneratorExit is raised at the
\* yield of line 164 and leaves the two async with blocks
Aclose ==
    /\ \E k \in gen.connections :
          /\ Abandoned(k)
          /\ gen' = [gen EXCEPT !.connections = Released(@, k)]
    /\ UNCHANGED <<authVars, stream, passes, lines, chunks, nlines, splitVars, callerVars,
                   raceVars>>

\* chat(), where the token endpoint answers tokenResponse to a refresh and the
\* messages endpoint response
ChatStep(tokenResponse, response) ==
    LET r == chat(file, pending, now, tokenResponse, now, response)
    IN  /\ file' = r.file
        /\ pending' = r.pending
        /\ last' = Call("chat", <<response>>, r)
        /\ UNCHANGED <<now, splitVars, callerVars, streamVars, raceVars>>

\* chat(), before the stream is iterated
Chat ==
    /\ passes = 0
    /\ LET credentials == load_credentials(file)
           refreshes == IF credentials = None THEN FALSE
                        ELSE NeedsRefresh(credentials, now)
           tokenResponses == IF refreshes THEN ChatTokenResponses ELSE {NoResponse}
       IN  \E tokenResponse \in tokenResponses :
              LET token == get_valid_access_token(file, pending, now, tokenResponse, now)
                  responses == IF token.raised # None THEN {NoResponse}
                               ELSE ChatResponses
              IN  \E response \in responses : ChatStep(tokenResponse, response)

\* sys.exit(code) after print(msg)
Exit(code, msg) == [t |-> "exit", code |-> code, msg |-> msg]

\* cli.py lines 177-179 and 216-218: the first lines of cmd_ask and cmd_chat
CommandGate(f, t) ==
    LET valid == has_valid_credentials(f, t)
    IN  IF valid.raised # None THEN valid
        ELSE IF valid.value = Bool(FALSE)
        THEN Returned(Exit(1, "Not authenticated. Run \"login\" first."))
        ELSE Returned(None)

\* cmd_ask(question), on the one stream object it creates: the gate, then
\* chat_stream and the iteration of the stream up to its first line
CmdAsk ==
    /\ passes = 0
    /\ LET gate == CommandGate(file, now)
           credentials == load_credentials(file)
           refreshes == IF credentials = None THEN FALSE
                        ELSE NeedsRefresh(credentials, now)
           tokenResponses == IF refreshes THEN ChatTokenResponses ELSE {NoResponse}
       IN  /\ last' = [op |-> "cmd_ask", args |-> <<>>, raised |-> gate.raised,
                       value |-> gate.value, sent |-> <<>>]
           /\ IF gate # Returned(None)
              THEN UNCHANGED <<now, file, pending, splitVars, callerVars, streamVars, raceVars>>
              ELSE \E tokenResponse \in tokenResponses :
                      LET token == get_valid_access_token(file, pending, now,
                                                          tokenResponse, now)
                          responses == IF token.raised # None THEN {NoResponse}
                                       ELSE StreamResponses
                      IN  \E response \in responses : AiterStep(tokenResponse, response)

\* cmd_chat up to its prompt: the gate; each message then creates and iterates
\* a stream
CmdChat ==
    /\ passes = 0
    /\ LET gate == CommandGate(file, now)
       IN  last' = [op |-> "cmd_chat", args |-> <<>>, raised |-> gate.raised,
                    value |-> gate.value, sent |-> <<>>]
    /\ UNCHANGED <<now, file, pending, splitVars, callerVars, streamVars, raceVars>>

NextChat ==
    \/ Aiter
    \/ NextLine
    \/ EndOfLines
    \/ Abandon
    \/ Aclose
    \/ Chat
    \/ CmdAsk
    \/ CmdChat

SpecChat == InitChat /\ [][NextChat]_vars

\* the iteration of the stream alone, where the event loop keeps running
\* until the generators it was asked to close are closed
NextStream ==
    \/ Aiter
    \/ NextLine
    \/ EndOfLines
    \/ Abandon
    \/ Aclose

SpecStream == InitChat /\ [][NextStream]_vars /\ WF_vars(Aclose)

----------------------------------------------------------------------------
(* The interactive chat of cmd_chat as a state machine: each step is one    *)
(* turn of its loop, the line read at the prompt and send_message on it.    *)

\* the messages the chat may hold
MaxMessages == 4

\* the files /file may have attached
MaxFiles == 1

\* cli.py lines 26-30
MODELS ==
    [haiku |-> "claude-haiku-4-5-20251001",
     sonnet |-> "claude-sonnet-4-20250514",
     opus |-> "claude-opus-4-20250514"]

\* the text typed at the prompt that is not a command
UserTexts == {"hi"}

\* load_file(path): the block of a file that exists, None for one that does not
FileBlocks == {None, [type |-> "image", source |-> "a.png"]}

\* line 278: the content of the user message
TextBlock(user_input) == [type |-> "text", text |-> user_input]

\* the lines the messages endpoint streams in a turn: the scripted case, a
\* stream with no event, and one whose third line is the JSON number 5
TurnLines ==
    {Scripted,
     <<>>,
     <<MessageStart("msg_1", "m1"), ContentBlockDelta("Hel"), Line(TRUE, Json(Num(5)))>>}

\* line 288 and client.py lines 125-142: the request of a turn, with the
\* model of the chat and the messages so far
TurnRequest(access_token, model, messages) ==
    [ChatRequest(access_token, TRUE) EXCEPT !.model = MODELS[model]]
        @@ [messages |-> messages]

\* what the iteration of a stream has come to: what it raised, the stream
\* object, the chunks yielded, the credential file and the requests sent
Collected(raised, self, yielded, f, sent) ==
    [raised |-> raised, self |-> self, yielded |-> yielded, file |-> f, sent |-> sent]

\* client.py lines 149-177 on the lines ls, from the stream object self
RECURSIVE RunLines(_, _, _, _)
RunLines(ls, self, final_data, yielded) ==
    IF ls = <<>>
    THEN Turn(None, yielded, self, final_data)
    ELSE LET turn == ProcessLine(Head(ls), self, final_data)
         IN  IF turn.raised # None
             THEN Turn(turn.raised, yielded \o turn.yielded, turn.self, turn.final_data)
             ELSE RunLines(Tail(ls), turn.self, turn.final_data,
                           yielded \o turn.yielded)

\* lines 288-297: chat_stream(messages, options) iterated to its end by
\* collect(), where the token endpoint answers tokenResponse to a refresh and
\* the messages endpoint answers response and streams ls
Collect(f, p, t, model, messages, tokenResponse, response, ls) ==
    LET token == get_valid_access_token(f, p, t, tokenResponse, t)
        sent == Append(token.sent, TurnRequest(token.value.s, model, messages))
        error_text == BytesDecode(response.body)
        run == RunLines(ls, chat_stream, EmptyFinalData, <<>>)
        final == FinalResponse(run.self, run.final_data)
    IN  IF token.raised # None
        THEN Collected(token.raised, chat_stream, <<>>, token.file, token.sent)
        ELSE IF ~is_success(response)
        THEN Collected(IF error_text.raised # None THEN error_text.raised
                       ELSE ApiRequestFailed(response.status, error_text.value),
                       chat_stream, <<>>, token.file, sent)
        ELSE IF run.raised # None
        THEN Collected(run.raised, run.self, run.yielded, token.file, sent)
        ELSE IF final.raised # None
        THEN Collected(final.raised, run.self, run.yielded, token.file, sent)
        ELSE Collected(None, [run.self EXCEPT !.response = final.value], run.yielded,
                       token.file, sent)

\* line 294: full_response, the chunks put together
RECURSIVE FullResponse(_)
FullResponse(yielded) ==
    IF yielded = <<>> THEN "" ELSE Head(yielded) \o FullResponse(Tail(yielded))

\* a message of the chat
Message(role, content) == [role |-> role, content |-> content]

\* lines 278-309: send_message on a text that is not a command.  The user
\* message is appended (line 280); the assistant message is appended when the
\* stream has ended and set its response (lines 300-305); an exception of the
\* stream is printed (lines 307-309).
SendMessageStep(user_input, tokenResponse, response, ls) ==
    LET content == Append(cli.pending_files, TextBlock(user_input))
        asked == Append(cli.messages, Message("user", content))
        r == Collect(file, pending, now, cli.current_model, asked,
                     tokenResponse, response, ls)
    IN  /\ cli' = [cli EXCEPT
                      !.pending_files = <<>>,
                      !.messages = IF r.raised = None /\ r.self.response # None
                                   THEN Append(asked, Message("assistant",
                                                              FullResponse(r.yielded)))
                                   ELSE asked]
        /\ file' = r.file
        /\ last' = [op |-> "send_message", args |-> <<user_input>>,
                    raised |-> None,
                    value |-> IF r.raised = None THEN None ELSE r.raised,
                    sent |-> r.sent]
        /\ UNCHANGED <<now, pending, held, splitVars, streamVars, raceVars>>

\* a text typed at the prompt
SendMessage ==
    /\ Len(cli.messages) + 2 <= MaxMessages
    /\ \E user_input \in UserTexts :
       LET credentials == load_credentials(file)
           refreshes == IF credentials = None THEN FALSE
                        ELSE NeedsRefresh(credentials, now)
           tokenResponses == IF refreshes THEN ChatTokenResponses ELSE {NoResponse}
       IN  \E tokenResponse \in tokenResponses :
              LET token == get_valid_access_token(file, pending, now, tokenResponse, now)
                  responses == IF token.raised # None THEN {NoResponse}
                               ELSE StreamResponses
              IN  \E response \in responses :
                     LET streamed == IF is_success(response) THEN TurnLines ELSE {<<>>}
                     IN  \E ls \in streamed :
                            SendMessageStep(user_input, tokenResponse, response, ls)

\* lines 245-256: /haiku, /sonnet, /opus
SwitchModel ==
    /\ \E model \in DOMAIN MODELS : cli' = [cli EXCEPT !.current_model = model]
    /\ last' = [op |-> "send_message", args |-> <<"/model">>, raised |-> None,
                value |-> None, sent |-> <<>>]
    /\ UNCHANGED <<now, file, pending, held, splitVars, streamVars, raceVars>>

\* lines 264-273: /file <path>
AttachFile ==
    /\ Len(cli.pending_files) < MaxFiles
    /\ \E block \in FileBlocks :
          cli' = IF block = None THEN cli
                 ELSE [cli EXCEPT !.pending_files = Append(@, block)]
    /\ last' = [op |-> "send_message", args |-> <<"/file">>, raised |-> None,
                value |-> None, sent |-> <<>>]
    /\ UNCHANGED <<now, file, pending, held, splitVars, streamVars, raceVars>>

\* lines 260-263: /clear
ClearFiles ==
    /\ cli' = [cli EXCEPT !.pending_files = <<>>]
    /\ last' = [op |-> "send_message", args |-> <<"/clear">>, raised |-> None,
                value |-> None, sent |-> <<>>]
    /\ UNCHANGED <<now, file, pending, held, splitVars, streamVars, raceVars>>

\* the chat begins behind the gate of lines 216-218, with credentials that
\* has_valid_credentials accepts
InitCmdChat ==
    /\ now = 0
    /\ file \in {f \in ChatFiles : CommandGate(f, 0) = Returned(None)}
    /\ pending = None
    /\ last = NoCall
    /\ inp = <<>>
    /\ out = NoSplit
    /\ InitStream
    /\ InitProcs
    /\ InitCaller

NextCmdChat ==
    \/ Tick
    \/ SendMessage
    \/ SwitchModel
    \/ AttachFile
    \/ ClearFiles

SpecCmdChat == InitCmdChat /\ [][NextCmdChat]_vars

----------------------------------------------------------------------------
(* The concurrent processes as a state machine *)

\* the credentials in the file when the processes call: expired, and at the
\* boundary of the buffer
RaceCredentials ==
    {ClaudeOAuthCredentials("at1", "rt1", exp, 0) : exp \in {0, BUFFER_MS}}

\* the answers of the token endpoint to the refresh requests of the processes
RaceTokenResponses ==
    {[status |-> 200, data |-> [access_token |-> "at2", expires_in |-> 301]],
     [status |-> 200, data |-> [access_token |-> "at3-longer", refresh_token |-> "rt2",
                                expires_in |-> 301]],
     [status |-> 400, text |-> "invalid_grant"]}

\* the length of the text of a credential file, up to the punctuation that all
\* credential files share
FileLen(f) ==
    CASE f.t = "text" -> Len(f.text)
      [] f.t = "garbled" -> f.len
      [] f.t = "json" -> Len(f.v.f.accessToken.s) + Len(f.v.f.refreshToken.s)
                         + Len(ToString(f.v.f.expiresAt.n))
                         + Len(ToString(f.v.f.connectedAt.n))
      [] OTHER -> 0

\* a write of the text of new at offset 0 of the file f
WriteAtStart(f, new) ==
    IF FileLen(f) <= FileLen(new) THEN new ELSE Garbled(new.v, FileLen(f))

InitRace ==
    /\ now = 0
    /\ file \in {save_credentials(credentials) : credentials \in RaceCredentials}
    /\ pending = None
    /\ last = NoCall
    /\ inp = <<>>
    /\ out = NoSplit
    /\ InitStream
    /\ InitProcs
    /\ InitCaller

\* oauth.py lines 123-129 and 96-104: process i loads the credentials and, when
\* they are inside the buffer, posts its refresh request
RaceCallStep(i) ==
    /\ procs[i].pc = "idle"
    /\ LET token == get_valid_access_token(file, pending, now, NoResponse, now)
           credentials == load_credentials(file)
           refreshes == IF credentials = None THEN FALSE
                        ELSE NeedsRefresh(credentials, now)
       IN  procs' = [procs EXCEPT ![i] =
                        IF refreshes
                        THEN Proc("requesting", credentials, None, token.sent, 0)
                        ELSE Proc("done", credentials, token.raised, <<>>, 0)]
    /\ UNCHANGED <<authVars, splitVars, callerVars, streamVars>>

\* oauth.py lines 106-116: the answer to the refresh request of process i
RaceResponseStep(i) ==
    /\ procs[i].pc = "requesting"
    /\ \E response \in RaceTokenResponses :
          LET r == refresh_access_token(procs[i].credentials, file, pending, response, now)
          IN  procs' = [procs EXCEPT ![i] =
                           IF r.raised # None
                           THEN Proc("done", procs[i].credentials, r.raised, r.sent, 0)
                           ELSE Proc("opening", r.value, None, r.sent, 0)]
    /\ UNCHANGED <<authVars, splitVars, callerVars, streamVars>>

\* storage.py line 40: process i opens the file for writing
RaceOpenStep(i) ==
    /\ procs[i].pc = "opening"
    /\ file' = Truncated
    /\ procs' = [procs EXCEPT ![i].pc = "writing"]
    /\ UNCHANGED <<now, pending, last, splitVars, callerVars, streamVars>>

\* storage.py line 40: process i writes its text and closes the file, and
\* get_valid_access_token returns
RaceWriteStep(i) ==
    /\ procs[i].pc = "writing"
    /\ file' = WriteAtStart(file, save_credentials(procs[i].credentials))
    /\ procs' = [procs EXCEPT
                    ![i].pc = "done",
                    ![i].order = 1 + Cardinality({j \in Procs : procs[j].order > 0})]
    /\ UNCHANGED <<now, pending, last, splitVars, callerVars, streamVars>>

RaceCall == \E i \in Procs : RaceCallStep(i)
RaceResponse == \E i \in Procs : RaceResponseStep(i)
RaceOpen == \E i \in Procs : RaceOpenStep(i)
RaceWrite == \E i \in Procs : RaceWriteStep(i)

NextRace ==
    \/ RaceCall
    \/ RaceResponse
    \/ RaceOpen
    \/ RaceWrite

SpecRace == InitRace /\ [][NextRace]_vars

----------------------------------------------------------------------------
(* The credential store as a state machine: the file starts with any        *)
(* content, the caller saves, loads, clears and probes, the clock advances. *)

\* the expiry times around the buffer at the clock readings
StoreExpiries ==
    {0} \cup {t + BUFFER_MS + d : t \in Clock, d \in {0, 1}}

\* the credential records saved
StoreCredentials ==
    {ClaudeOAuthCredentials(at, "rt1", exp, conn) :
        at \in AccessTokens, exp \in StoreExpiries, conn \in {0, 1000}}

\* the contents the file starts with
StoreFiles ==
    {NoFile, Unreadable, NotJson,
     FileJson(Obj([accessToken |-> Str("at1"), refreshToken |-> Str("rt1"),
                   expiresAt |-> Num(301001)])),
     FileJson(Obj([token |-> Str("at1")])),
     FileJson(List(<<>>)),
     FileJson(Num(5)),
     FileJson(Str("at1")),
     FileJson(None)}
    \cup {save_credentials(credentials) : credentials \in StoreCredentials}

InitStore ==
    /\ now = 0
    /\ file \in StoreFiles
    /\ pending = None
    /\ last = NoCall
    /\ inp = <<>>
    /\ out = NoSplit
    /\ InitStream
    /\ InitProcs
    /\ InitCaller

\* save_credentials(credentials)
SaveCredentials ==
    \E credentials \in StoreCredentials :
        /\ file' = save_credentials(credentials)
        /\ last' = [op |-> "save_credentials", args |-> <<credentials>>,
                    raised |-> None, value |-> None, sent |-> <<>>]
        /\ UNCHANGED <<now, pending>>
        /\ UNCHANGED <<splitVars, callerVars, streamVars, raceVars>>

\* has_valid_credentials()
HasValidCredentials ==
    /\ last' = [op |-> "has_valid_credentials", args |-> <<>>,
                raised |-> has_valid_credentials(file, now).raised,
                value |-> has_valid_credentials(file, now).value, sent |-> <<>>]
    /\ UNCHANGED <<now, file, pending>>
    /\ UNCHANGED <<splitVars, callerVars, streamVars, raceVars>>

NextStore ==
    \/ Tick
    \/ SaveCredentials
    \/ LoadCredentials
    \/ ClearCredentials
    \/ HasValidCredentials

SpecStore == InitStore /\ [][NextStore]_vars

----------------------------------------------------------------------------
(* The OAuth coordinator alone *)

Init ==
    /\ InitAuth
    /\ inp = <<>>
    /\ out = NoSplit
    /\ InitStream
    /\ InitProcs
    /\ InitCaller

Next == NextAuth

Spec == Init /\ [][Next]_vars

\* login, logout and the calls between them, by a caller that may keep the
\* credentials objects it is returned
NextLogout ==
    \/ Tick
    \/ ExchangeCode
    \/ Keep
    \/ RefreshAccessToken
    \/ GetValidAccessToken
    \/ ClearCredentials

SpecLogout == Init /\ [][NextLogout]_vars

----------------------------------------------------------------------------
(* The split of the pasted authorization code, on every input up to MaxLen    *)
(* characters over a letter, the separator and a blank.                       *)

SplitAlphabet == {"a", "#", " "}

SplitInputs == UNION {[1..n -> SplitAlphabet] : n \in 0..MaxLen}

InitSplit ==
    /\ InitAuth
    /\ inp \in SplitInputs
    /\ out = NoSplit
    /\ InitStream
    /\ InitProcs
    /\ InitCaller

\* exchange_code_for_tokens, line 63, on the input drawn
DoSplit ==
    /\ ~out.done
    /\ out' = [done |-> TRUE, code |-> SplitCode(inp)[1], state |-> SplitCode(inp)[2]]
    /\ UNCHANGED inp
    /\ UNCHANGED <<authVars, streamVars, raceVars, callerVars>>

NextSplit == DoSplit

SpecSplit == InitSplit /\ [][NextSplit]_vars

\* the index of the first "#" of s
FirstHashAt(s) == CHOOSE k \in 1..Len(s) : s[k] = "#" /\ \A j \in 1..(k - 1) : s[j] # "#"

\* s without the whitespace around it
Trimmed(s) ==
    LET keep == {i \in 1..Len(s) : s[i] \notin {" ", "\n", "\t"}}
    IN  IF keep = {} THEN <<>>
        ELSE SubSeq(s, CHOOSE i \in keep : \A j \in keep : i <= j,
                       CHOOSE i \in keep : \A j \in keep : i >= j)

\* C7, as stated: the input is split on its first "#", everything before it is the
\* code and everything after it is the state; an input with no "#" gives the whole
\* trimmed string as the code and an empty state.
C7_SplitOfInputAsStated ==
    out.done =>
        IF \E i \in 1..Len(inp) : inp[i] = "#"
        THEN /\ out.code = SubSeq(inp, 1, FirstHashAt(inp) - 1)
             /\ out.state = SubSeq(inp, FirstHashAt(inp) + 1, Len(inp))
        ELSE out.code = Trimmed(inp) /\ out.state = <<>>

\* C7, amended: the trimmed input is split on its first "#", everything before it
\* is the code and everything after it (further "#" included) is the state; an
\* input with no "#" gives the whole trimmed string as the code and an empty state.
C7_SplitOfTrimmedInput ==
    out.done =>
        IF \E i \in 1..Len(inp) : inp[i] = "#"
        THEN /\ out.code = SubSeq(Trimmed(inp), 1, FirstHashAt(Trimmed(inp)) - 1)
             /\ out.state = SubSeq(Trimmed(inp), FirstHashAt(Trimmed(inp)) + 1,
                                   Len(Trimmed(inp)))
        ELSE out.code = Trimmed(inp) /\ out.state = <<>>

\* an input with blanks around it and two "#" was split: the state holds the
\* second "#"
C7_Witness ==
    /\ out.done
    /\ Len(inp) > 0
    /\ inp[1] = " "
    /\ out.code = <<"a">>
    /\ \E i \in 1..Len(out.state) : out.state[i] = "#"

----------------------------------------------------------------------------
(* Properties of the OAuth coordinator *)

IsRefreshRequest(request) ==
    IF "grant_type" \in DOMAIN request THEN request.grant_type = "refresh_token" ELSE FALSE

\* the number of refresh requests among the requests a call sent
RefreshRequests(sent) == Cardinality({i \in 1..Len(sent) : IsRefreshRequest(sent[i])})

RefreshFailed(call) ==
    /\ call.raised # None
    /\ call.raised.type = "RuntimeError"
    /\ call.raised.msg[1] = "Token refresh failed: "

ExchangeFailed(call) ==
    /\ call.raised # None
    /\ call.raised.type = "RuntimeError"
    /\ call.raised.msg[1] = "Token exchange failed: "

InvalidFlowState ==
    Exception("ValueError", <<"No code verifier found. Start OAuth flow first.">>)

\* C1: one call of get_valid_access_token on persisted credentials sends exactly
\* one refresh request when expires_at <= now + 5 minutes (the boundary included)
\* and none when expires_at > now + 5 minutes; it never sends more than one, also
\* when the refreshed credentials are inside the buffer again.
C1_OneRefreshInsideBuffer ==
    [][(last'.op = "get_valid_access_token" /\ file # NoFile)
        => /\ load_credentials(file).expires_at <= now + 300000
                  => RefreshRequests(last'.sent) = 1
           /\ load_credentials(file).expires_at > now + 300000
                  => RefreshRequests(last'.sent) = 0
           /\ Len(last'.sent) <= 1]_vars

\* get_valid_access_token has refreshed once, at the boundary of the buffer or
\* inside it, and the credentials it stored are inside the buffer again
C1_Witness ==
    /\ last.op = "get_valid_access_token"
    /\ last.raised = None
    /\ RefreshRequests(last.sent) = 1
    /\ file # NoFile
    /\ load_credentials(file).expires_at <= now + 300000

\* C2: a failed refresh (non-2xx token response), called directly or through
\* get_valid_access_token, leaves the persisted record as it was, field for field;
\* the record changes only by a call that succeeds.
C2_FailedRefreshKeepsFile ==
    [][/\ (last'.op \in {"refresh_access_token", "get_valid_access_token"}
            /\ RefreshFailed(last')) => file' = file
       /\ file' # file => last'.raised = None]_vars

\* a refresh sent by get_valid_access_token failed while credentials are stored
C2_Witness ==
    /\ last.op = "get_valid_access_token"
    /\ RefreshFailed(last)
    /\ RefreshRequests(last.sent) = 1
    /\ file # NoFile

\* C5: exchange_code_for_tokens with no pending verifier and no explicit verifier
\* fails with the invalid-flow-state error, sends no token request and leaves the
\* persisted credentials as they were.
C5_NoVerifierFailsEarly ==
    [][(last'.op = "exchange_code_for_tokens" /\ pending = None
            /\ ~Truthy(last'.args[2]))
        => /\ last'.raised = InvalidFlowState
           /\ last'.sent = <<>>
           /\ file' = file
           /\ pending' = None]_vars

\* the exchange was called without a verifier while credentials are stored, and
\* it failed
C5_Witness ==
    /\ last.op = "exchange_code_for_tokens"
    /\ last.args[2] = None
    /\ last.raised = InvalidFlowState
    /\ file # NoFile

\* C6: after a successful exchange the persisted credentials are the returned ones
\* and the pending verifier is cleared; after an exchange that failed with a
\* non-2xx response the persisted credentials and the pending verifier are both
\* as they were.
C6_ExchangePersistsAndClears ==
    [][last'.op = "exchange_code_for_tokens"
        => /\ last'.raised = None
                => /\ load_credentials(file') = last'.value
                   /\ pending' = None
           /\ ExchangeFailed(last') => file' = file /\ pending' = pending]_vars

\* an exchange that took its verifier from the pending flow succeeded
C6_Witness ==
    /\ last.op = "exchange_code_for_tokens"
    /\ last.args[2] = None
    /\ last.raised = None
    /\ pending = None
    /\ load_credentials(file) = last.value

----------------------------------------------------------------------------
(* Properties of the chat transport *)

RECURSIVE Concat(_)
Concat(texts) == IF texts = <<>> THEN "" ELSE Head(texts) \o Concat(Tail(texts))

\* a line that carries an event object of the given type
IsEvent(line, type) ==
    /\ line.data
    /\ line.body.json
    /\ IsDict(line.body.v)
    /\ "type" \in DOMAIN line.body.v.f
    /\ line.body.v.f.type = Str(type)

\* a content_block_delta event whose delta.text is a non-empty string
IsTextDelta(line) ==
    /\ IsEvent(line, "content_block_delta")
    /\ "delta" \in DOMAIN line.body.v.f
    /\ IsDict(line.body.v.f.delta)
    /\ "text" \in DOMAIN line.body.v.f.delta.f
    /\ line.body.v.f.delta.f.text.t = "str"
    /\ line.body.v.f.delta.f.text.s # ""

\* the non-empty delta.text values of the lines ls, in arrival order
DeltaTexts(ls) ==
    LET deltas == SelectSeq(ls, IsTextDelta)
    IN  [i \in 1..Len(deltas) |-> deltas[i].body.v.f.delta.f.text.s]

\* a message_start event that carries a message
IsMessageStart(line) ==
    /\ IsEvent(line, "message_start")
    /\ "message" \in DOMAIN line.body.v.f
    /\ IsDict(line.body.v.f.message)

\* the messages of the message_start events of the lines ls
StartedMessages(ls) ==
    LET starts == SelectSeq(ls, IsMessageStart)
    IN  [i \in 1..Len(starts) |-> starts[i].body.v.f.message.f]

\* the response was answered with a status outside 2xx
NonSuccess(response) == response.status # 0 /\ ~is_success(response)

\* the exception is an API-request failure that carries the status and the body
CarriesStatusAndBody(raised, response) ==
    /\ raised # None
    /\ raised.type = "RuntimeError"
    /\ raised.msg[1] = "API request failed: "
    /\ raised.msg[2] = ToString(response.status)
    /\ raised.msg[4] = ResponseText(response.body)

\* the requests to the messages endpoint among the requests sent
ChatRequests(sent) ==
    SelectSeq(sent, LAMBDA request : "authorization" \in DOMAIN request)

FullyPopulated(response) ==
    /\ DOMAIN response =
           {"id", "content", "model", "stop_reason", "input_tokens", "output_tokens"}
    /\ response.id \in STRING
    /\ response.content \in STRING
    /\ response.model \in STRING
    /\ response.stop_reason \in STRING
    /\ response.input_tokens \in Nat
    /\ response.output_tokens \in Nat

\* C3: in the first iteration of a stream object, the chunks the consumer has
\* received are exactly the non-empty delta.text values of the
\* content_block_delta events delivered so far, in arrival order; when the
\* stream has ended normally, the response's content is the concatenation of
\* those chunks and its id and model are those of the (last) message_start
\* event, or empty without one; the scripted stream gives the chunks "Hel",
\* "lo" and the response {msg_1, "Hello", m1, end_turn, 10, 2}.
C3_ChunksAndFinalResponse ==
    /\ gen.pc \in Running \cup {"done"} => chunks = DeltaTexts(lines)
    /\ (gen.pc = "done" /\ passes = 1) =>
          LET started == StartedMessages(lines)
          IN  /\ stream.response.content = Concat(chunks)
              /\ stream.response.id =
                     IF started = <<>> THEN "" ELSE started[Len(started)].id.s
              /\ stream.response.model =
                     IF started = <<>> THEN "" ELSE started[Len(started)].model.s
    /\ (gen.pc = "done" /\ passes = 1 /\ lines = Scripted) =>
          /\ chunks = <<"Hel", "lo">>
          /\ stream.response = ChatResponse("msg_1", "Hello", "m1", "end_turn", 10, 2)

\* the scripted stream has ended normally in the first iteration
C3_Witness ==
    /\ gen.pc = "done"
    /\ passes = 1
    /\ lines = Scripted
    /\ chunks = <<"Hel", "lo">>
    /\ stream.response.content = "Hello"

\* C4: a non-2xx response of the messages endpoint raises an API-request
\* failure that carries the status and the body, in chat() and in the stream;
\* in the stream no chunk has been yielded and the response stays absent.
C4_NonSuccessRaisesApiRequestFailed ==
    /\ (last.op = "chat" /\ NonSuccess(last.args[1])) =>
          CarriesStatusAndBody(last.raised, last.args[1])
    /\ (passes = 1 /\ NonSuccess(gen.response)) =>
          /\ CarriesStatusAndBody(gen.raised, gen.response)
          /\ chunks = <<>>
          /\ stream.response = None

\* C8: no line of a 2xx stream is fatal: after any lines the generator has not
\* failed.
C8_NoLineIsFatal == is_success(gen.response) => gen.pc # "failed"

\* C9: the response of a stream object is absent at first, is absent or fully
\* populated in every state, and changes only in the step in which the
\* generator runs off the end of the lines, to a fully populated record: a
\* step in which the stream fails or is abandoned leaves it as it is.
C9_ResponseAbsentOrComplete ==
    /\ stream.response = None
    /\ [](stream.response = None \/ FullyPopulated(stream.response))
    /\ [][stream.response' # stream.response =>
             /\ gen.pc \in Running
             /\ gen'.pc = "done"
             /\ FullyPopulated(stream.response')]_vars

\* the consumer has abandoned the first iteration after chunks, or it has
\* failed after chunks, and the response is absent
C9_Witness ==
    /\ passes = 1
    /\ gen.pc \in {"failed", "abandoned"}
    /\ chunks # <<>>
    /\ stream.response = None

\* C10: a second iteration of the same stream object sends no request and
\* yields no chunk, and after a completed iteration the response's content is
\* the concatenation of the chunks of that iteration's request.
C10_SecondIterationDoesNothing ==
    /\ passes >= 2 => ChatRequests(gen.sent) = <<>> /\ chunks = <<>>
    /\ gen.pc = "done" => stream.response.content = Concat(chunks)

----------------------------------------------------------------------------
(* Properties of the credential store *)

\* the file holds a JSON object with the four fields of a credential record
HoldsCredentials(f) ==
    /\ f.t = "json"
    /\ IsDict(f.v)
    /\ CredentialKeys \subseteq DOMAIN f.v.f

\* get_valid_access_token, whatever the token endpoint would answer, returns
\* the stored token and sends no request
ReturnsStoredToken(f, p, t) ==
    /\ HoldsCredentials(f)
    /\ \A response \in TokenResponses :
          LET r == get_valid_access_token(f, p, t, response, t)
          IN  /\ r.raised = None
              /\ r.value = f.v.f.accessToken
              /\ r.sent = <<>>

\* C11: has_valid_credentials never raises, returns true exactly when
\* get_valid_access_token would return the stored token without a refresh
\* (expires_at > now + 5 minutes), and returns false when no credentials are
\* loadable.
C11_ProbeAgreesWithGetValid ==
    last.op = "has_valid_credentials" =>
        /\ last.raised = None
        /\ last.value = Bool(ReturnsStoredToken(file, pending, now))
        /\ ~HoldsCredentials(file) => last.value = Bool(FALSE)

\* C12: load_credentials after save_credentials(credentials) returns a record
\* equal to credentials field for field, whatever the file held before;
\* load_credentials after clear_credentials returns None, also when the file
\* did not exist before the clear.
C12_SaveLoadRoundTrip ==
    /\ last.op = "save_credentials" =>
          /\ LoadCredentialsCall(file).raised = None
          /\ load_credentials(file).access_token = last.args[1].access_token
          /\ load_credentials(file).refresh_token = last.args[1].refresh_token
          /\ load_credentials(file).expires_at = last.args[1].expires_at
          /\ load_credentials(file).connected_at = last.args[1].connected_at
    /\ last.op = "clear_credentials" => LoadCredentialsCall(file) = Returned(None)

\* credentials have been saved whose fields are pairwise different
C12_Witness ==
    /\ last.op = "save_credentials"
    /\ last.args[1].expires_at # last.args[1].connected_at
    /\ load_credentials(file) = last.args[1]

\* C13: load_credentials returns None and does not raise for every content of
\* the file that does not hold a credential record: a missing file, an
\* unreadable file, text that is not JSON, an object missing a field, JSON that
\* is not an object.
C13_MalformedFileLoadsAbsent ==
    (last.op = "load_credentials" /\ ~HoldsCredentials(file)) =>
        /\ last.raised = None
        /\ last.value = None

----------------------------------------------------------------------------
(* Properties of the credential record over exchanges and refreshes *)

RefreshCalls == {"refresh_access_token", "get_valid_access_token"}

\* the call has sent a refresh request and returned
RefreshSucceeded(call) ==
    /\ call.op \in RefreshCalls
    /\ call.raised = None
    /\ RefreshRequests(call.sent) = 1

\* the access token a refresh call returned
ReturnedAccessToken(call) ==
    IF call.op = "refresh_access_token" THEN call.value.access_token ELSE call.value.s

C15_RefreshTokenRotation ==
    [][(last'.op = "refresh_access_token" \/
        (last'.op = "get_valid_access_token" /\ file # NoFile)) =>
          \A response \in TokenResponses :
             LET old == IF last'.op = "refresh_access_token" THEN last'.args[1]
                        ELSE load_credentials(file)
                 r == refresh_access_token(old, file, pending, response, now')
             IN  (/\ r.raised = None
                  /\ RefreshSucceeded(last')
                  /\ last'.sent = r.sent
                  /\ file' = r.file) =>
                    LET expected == IF "refresh_token" \in DOMAIN response.data
                                    THEN response.data.refresh_token
                                    ELSE old.refresh_token
                    IN  /\ load_credentials(file').refresh_token = expected
                        /\ last'.op = "refresh_access_token" =>
                              last'.value.refresh_token = expected]_vars

\* a refresh has succeeded and the credentials it returned carry the refresh
\* token that was sent
C15_Witness ==
    /\ RefreshSucceeded(last)
    /\ last.op = "refresh_access_token"
    /\ last.value.refresh_token = last.sent[1].refresh_token
    /\ load_credentials(file).refresh_token = last.sent[1].refresh_token

----------------------------------------------------------------------------
(* Properties of the authorization flow *)

\* the parameters of the authorization URL that carry PKCE material
PkceParams == {"code_challenge", "state"}

\* C16: the PKCE verifier is in no parameter of the authorization URL that
\* start_oauth_flow builds: it leaves the process only as the code_verifier of
\* the token-exchange request.
C16_VerifierOnlyInExchange ==
    last.op = "start_oauth_flow" =>
        \A param \in PkceParams :
            last.value.auth_url[param] # last.value.code_verifier

----------------------------------------------------------------------------
(* Properties of concurrent refreshes *)

\* the processes that have saved
Savers == {i \in Procs : procs[i].order > 0}

\* the process that saved last
LastSaver == CHOOSE i \in Savers : \A j \in Savers : procs[j].order <= procs[i].order

\* C17: each of two concurrent get_valid_access_token calls sends at most one
\* refresh request, and once both have finished and one has saved, the file is
\* exactly the record of the process that saved last, with the connected_at
\* the file held before.
C17_LastWriterWins ==
    /\ \A i \in Procs : Len(procs[i].sent) <= 1
    /\ ((\A i \in Procs : procs[i].pc = "done") /\ Savers # {}) =>
          /\ file = save_credentials(procs[LastSaver].credentials)
          /\ load_credentials(file).connected_at = 0

----------------------------------------------------------------------------
(* Properties of the commands *)

\* the command ended with the not-authenticated message
NotAuthenticatedExit(call) ==
    /\ call.raised = None
    /\ call.value # None
    /\ call.value.t = "exit"

\* C18: with persisted credentials whose expires_at is inside the buffer or
\* past, cmd_ask and cmd_chat do not end with the not-authenticated outcome.
C18_CommandsSelfHeal ==
    (/\ last.op \in {"cmd_ask", "cmd_chat"}
     /\ HoldsCredentials(file)
     /\ load_credentials(file).expires_at <= now + BUFFER_MS) =>
        ~NotAuthenticatedExit(last)

----------------------------------------------------------------------------
(* Properties of the failures *)

\* the message of the exception holds the part
Carries(raised, part) == \E i \in 1..Len(raised.msg) : raised.msg[i] = part

\* C19: a failed token exchange and a failed token refresh raise a failure that
\* carries the HTTP status and the body of a non-2xx response of the provider.
C19_FailuresCarryStatusAndBody ==
    (ExchangeFailed(last) \/ RefreshFailed(last)) =>
        \E response \in TokenResponses :
            /\ ~is_success(response)
            /\ Carries(last.raised, ToString(response.status))
            /\ Carries(last.raised, response.text)

----------------------------------------------------------------------------
(* Properties of the metadata of a stream *)

\* a message_delta event that carries a usage object
CarriesUsage(line) ==
    /\ IsEvent(line, "message_delta")
    /\ "usage" \in DOMAIN line.body.v.f
    /\ IsDict(line.body.v.f.usage)

IsMessageDelta(line) == IsEvent(line, "message_delta")

\* the number under key of the usage object of the line, 0 without the key
UsageOf(line, key) ==
    IF key \in DOMAIN line.body.v.f.usage.f THEN line.body.v.f.usage.f[key].n ELSE 0

\* the stop_reason of the delta of the line, "" without one
StopReasonOf(line) ==
    IF /\ "delta" \in DOMAIN line.body.v.f
       /\ IsDict(line.body.v.f.delta)
       /\ "stop_reason" \in DOMAIN line.body.v.f.delta.f
    THEN line.body.v.f.delta.f.stop_reason.s
    ELSE ""

\* C20: when an iteration has ended normally, the response's input_tokens and
\* output_tokens are those of the last message_delta event that carried a usage
\* object (0 without one; a later message_delta without usage does not reset
\* them), and its stop_reason is the one of the delta of the last message_delta
\* event.
C20_LastUsageWins ==
    gen.pc = "done" =>
        LET usages == SelectSeq(lines, CarriesUsage)
            deltas == SelectSeq(lines, IsMessageDelta)
        IN  /\ stream.response.input_tokens =
                   IF usages = <<>> THEN 0 ELSE UsageOf(usages[Len(usages)], "input_tokens")
            /\ stream.response.output_tokens =
                   IF usages = <<>> THEN 0 ELSE UsageOf(usages[Len(usages)], "output_tokens")
            /\ stream.response.stop_reason =
                   IF deltas = <<>> THEN "" ELSE StopReasonOf(deltas[Len(deltas)])

\* a stream has ended normally after two message_delta events with different
\* usage objects and a third without one: the response has the second usage
C20_Witness ==
    /\ gen.pc = "done"
    /\ Len(lines) = 3
    /\ CarriesUsage(lines[1])
    /\ CarriesUsage(lines[2])
    /\ UsageOf(lines[1], "output_tokens") # UsageOf(lines[2], "output_tokens")
    /\ IsMessageDelta(lines[3])
    /\ ~CarriesUsage(lines[3])
    /\ stream.response.output_tokens = UsageOf(lines[2], "output_tokens")
    /\ stream.response.stop_reason = "max_tokens"

----------------------------------------------------------------------------
(* The connection of a streaming call *)

\* the iteration in progress holds its connection, and a connection is held
\* only by the iteration in progress or by one the consumer abandoned
HeldInIterationScope ==
    /\ gen.connections \subseteq 1..passes
    /\ gen.pc \in Running => passes \in gen.connections
    /\ \A k \in gen.connections :
          \/ k = passes /\ gen.pc \in Running
          \/ Abandoned(k)

\* C21: the connection of a streaming call is opened when the iteration
\* starts and held only for the iteration: an iteration that has completed or
\* failed (token, status, line or final response) holds no connection, and the
\* connection of an iteration the consumer abandoned is eventually released
C21_ConnectionReleasedInEveryEnding ==
    /\ [](HeldInIterationScope /\ (gen.pc \in {"none", "done", "failed"}
                                      => passes \notin gen.connections))
    /\ \A k \in 1..MaxPasses :
          (k \in gen.connections /\ Abandoned(k)) ~> (k \notin gen.connections)

\* an abandoned iteration whose connection has been released, after the
\* connection was open while its chunks were read
C21_Witness ==
    /\ gen.pc = "abandoned"
    /\ chunks # <<>>
    /\ gen.response.status = 200
    /\ gen.connections = {}

----------------------------------------------------------------------------
(* The access token of a chat request *)

\* the credentials in f are absent, or were due for a refresh at t (what a
\* failed refresh leaves, and a successful one never does)
TokenUnresolved(f, t) ==
    LET credentials == load_credentials(f)
    IN  IF credentials = None THEN TRUE ELSE NeedsRefresh(credentials, t)

\* the requests of one call: refresh requests if any, then one chat request,
\* whose bearer token is the access token persisted when the call has ended
TokenThenChatRequest(sent, f) ==
    /\ Len(sent) >= 1
    /\ \A i \in 1..(Len(sent) - 1) : IsRefreshRequest(sent[i])
    /\ ChatRequests(sent) = <<sent[Len(sent)]>>
    /\ sent[Len(sent)].authorization = "Bearer " \o load_credentials(f).access_token

\* C22: chat() and the iteration of a stream resolve the access token before
\* the chat request.  When the credentials are absent or the refresh failed the
\* call raises that failure, sends no chat request and yields no chunk;
\* otherwise its one chat request comes after the refresh request and carries
\* the token get_valid_access_token returned, which is the persisted one.
C22_TokenResolvedBeforeRequest ==
    /\ last.op = "chat" =>
          IF TokenUnresolved(file, now)
          THEN /\ last.raised # None
               /\ last.raised.type = "RuntimeError"
               /\ last.raised.msg \in {<<"Not authenticated. Run login first.">>,
                                        <<"Token refresh failed: ", "invalid_grant">>}
               /\ ChatRequests(last.sent) = <<>>
               /\ last.value = None
          ELSE TokenThenChatRequest(last.sent, file)
    /\ gen.pc # "none" =>
          IF TokenUnresolved(file, now)
          THEN /\ gen.at = "token"
               /\ gen.raised # None
               /\ gen.raised.type = "RuntimeError"
               /\ gen.raised.msg \in {<<"Not authenticated. Run login first.">>,
                                       <<"Token refresh failed: ", "invalid_grant">>}
               /\ ChatRequests(gen.sent) = <<>>
               /\ chunks = <<>>
               /\ gen.connections = {}
          ELSE /\ gen.at # "token"
               /\ TokenThenChatRequest(gen.sent, file)

\* a stream whose token was refreshed before its request, and which yielded a
\* chunk
C22_Witness ==
    /\ gen.pc = "yielded"
    /\ RefreshRequests(gen.sent) = 1
    /\ Len(gen.sent) = 2
    /\ gen.sent[2].authorization = "Bearer at2"
    /\ chunks # <<>>

----------------------------------------------------------------------------
(* The credential state machine *)

\* complete_authorization has succeeded in the step
AuthorizationCompleted(call) ==
    /\ call.op = "exchange_code_for_tokens"
    /\ call.raised = None

\* get_valid_access_token failed as unauthenticated and sent nothing
FailedUnauthenticated(call) ==
    /\ call.raised = Exception("RuntimeError", <<"Not authenticated. Run login first.">>)
    /\ call.sent = <<>>

\* C23: logout leaves no persisted credentials; while there are none,
\* has_valid_credentials is false and get_valid_access_token fails as
\* unauthenticated without sending a request; no operation other than a
\* successful complete_authorization persists credentials again; and
\* get_valid_access_token returns a token only when credentials are persisted.
C23_LoggedOutUntilAuthorization ==
    [][/\ last'.op = "clear_credentials" => file' = NoFile
       /\ file' = NoFile => has_valid_credentials(file', now') = Returned(Bool(FALSE))
       /\ (file = NoFile /\ last'.op = "get_valid_access_token") =>
             FailedUnauthenticated(last')
       /\ (file = NoFile /\ ~AuthorizationCompleted(last')) => file' = NoFile
       /\ (last'.op = "get_valid_access_token" /\ last'.raised = None) =>
             /\ file # NoFile
             /\ file' # NoFile]_vars

----------------------------------------------------------------------------
(* The history of the interactive chat *)

\* user and assistant messages alternate, starting with a user message
Alternates(messages) ==
    \A i \in 1..Len(messages) :
        messages[i].role = IF i % 2 = 1 THEN "user" ELSE "assistant"

\* the chat requests of the last turn
TurnRequests == SelectSeq(last.sent, LAMBDA request : "messages" \in DOMAIN request)

\* C24: at every prompt of the interactive chat the messages alternate user
\* and assistant starting with user and every user message has its assistant
\* reply, and the list a turn sent alternated and ended with the user message
\* of that turn.
C24_HistoryAlternates ==
    /\ Alternates(cli.messages)
    /\ Len(cli.messages) % 2 = 0
    /\ \A i \in 1..Len(TurnRequests) :
          /\ Alternates(TurnRequests[i].messages)
          /\ Len(TurnRequests[i].messages) % 2 = 1

====
